---- MODULE Spec2Model ----
(***************************************************************************)
(* Sleep Tracker Bot (src/bot.py).  The state is the process-wide          *)
(* dictionary user_sleep_data and the positions of the coroutines of the   *)
(* two handlers, start and handle_buttons.  A coroutine runs atomically    *)
(* from one await to the next, so every action below is the code between   *)
(* two awaits.  A time is a naive local datetime, held as the number of    *)
(* seconds since 00:00:00 of day 0.                                        *)
(***************************************************************************)
EXTENDS Integers, Sequences, FiniteSets

VARIABLES user_sleep_data, handlers, dispatched, handled, outbox,
          main, update_queue

vars == <<user_sleep_data, handlers, dispatched, handled, outbox,
          main, update_queue>>

(***************************************************************************)
(* Bounds of the model.                                                    *)
(***************************************************************************)
MaxEvents == 3
MaxInFlight == 2
MaxDay == 1

Users == {"u1", "u2"}
Handlers == 1..MaxInFlight
ButtonData == {"start_sleep", "stop_sleep", "cancel_sleep", "other"}
Days == 0..MaxDay

At(d, h, m, s) == d * 86400 + h * 3600 + m * 60 + s

\* Readings of datetime.now() in the interleaved specification: two times of
\* one day and the first of them again on the last day.
ClockTimes == {At(0, 7, 0, 0), At(0, 9, 30, 0), At(MaxDay, 7, 0, 0)}

\* Readings of datetime.now() in the single-session specification: every hour
\* of every day, at five offsets within the hour.
WideTimes == {At(d, h, 0, 0) : d \in Days, h \in 0..23}
               \cup {At(d, h, 10, 0) : d \in Days, h \in 0..23}
               \cup {At(d, h, 30, 0) : d \in Days, h \in 0..23}
               \cup {At(d, h, 45, 30) : d \in Days, h \in 0..23}
               \cup {At(d, h, 59, 59) : d \in Days, h \in 0..23}

NoTime == 0 - 1
NoHM == <<NoTime, NoTime>>

(***************************************************************************)
(* datetime and timedelta.                                                 *)
(***************************************************************************)
\* datetime.hour
Hour(t) == (t % 86400) \div 3600

\* datetime.minute
Minute(t) == (t % 3600) \div 60

\* strftime("%H:%M"): the date and the seconds are not printed.
Strftime(t) == <<Hour(t), Minute(t)>>

\* timedelta.total_seconds() in place of timedelta.seconds.
TimedeltaTotalSeconds(end, start) == end - start

\* timedelta.seconds of end - start: a timedelta is normalised to days,
\* 0 <= seconds < 86400 and microseconds, and .seconds is that field alone.
TimedeltaSeconds(end, start) == (end - start) % 86400

\* divmod(a, b)[0] and divmod(a, b)[1] of Python, b > 0: floor division.
DivmodQ(a, b) == a \div b
DivmodR(a, b) == a % b

\* get_sleep_type
get_sleep_type(start_time) ==
    LET hour == Hour(start_time)
    IN  IF 12 <= hour /\ hour < 18 THEN "day" ELSE "night"

\* the emoji of the summary
Emoji(sleep_type) == IF sleep_type = "day" THEN "sun" ELSE "moon"

(***************************************************************************)
(* The dictionary user_sleep_data: a function whose domain is the set of   *)
(* users that have an entry.                                               *)
(***************************************************************************)
EmptyDict == [u \in {} |-> NoTime]

\* The membership test of the stop_sleep branch left out.
NotInNever(dict, u) == FALSE

\* user_id not in user_sleep_data
NotIn(dict, u) == u \notin DOMAIN dict

\* user_sleep_data = {user_id: value} in place of the item assignment.
SetItemReplaces(dict, u, value) == [v \in {u} |-> value]

\* user_sleep_data.setdefault(user_id, value) in place of the assignment.
SetItemDefault(dict, u, value) ==
    [v \in DOMAIN dict \cup {u} |-> IF v \in DOMAIN dict THEN dict[v] ELSE value]

\* user_sleep_data[user_id] = value
SetItem(dict, u, value) ==
    [v \in DOMAIN dict \cup {u} |-> IF v = u THEN value ELSE dict[v]]

\* user_sleep_data.get(user_id) in place of pop: the entry stays.
PopKeeps(dict, u) == dict

\* the dictionary left by user_sleep_data.pop(user_id) and by
\* user_sleep_data.pop(user_id, None)
Pop(dict, u) == [v \in DOMAIN dict \ {u} |-> dict[v]]

\* user_sleep_data.pop(user_id) without the default in the cancel branch.
PopNoDefaultRaises(dict, u) == u \notin DOMAIN dict

\* user_sleep_data.pop(user_id) raises KeyError on a missing key;
\* user_sleep_data.pop(user_id, None) never raises.
PopRaises(dict, u) == u \notin DOMAIN dict
PopDefaultRaises(dict, u) == FALSE

(***************************************************************************)
(* Menus and message texts.                                                *)
(***************************************************************************)
main_menu == "main_menu"
sleep_menu == "sleep_menu"
no_menu == "none"

Text(kind, start, end, emoji, type, hours, minutes) ==
    [kind |-> kind, start |-> start, end |-> end, emoji |-> emoji,
     type |-> type, hours |-> hours, minutes |-> minutes]

PlainText(kind) == Text(kind, NoHM, NoHM, "", "", NoTime, NoTime)

\* f"Sleep started at {start_time}"
StartedText(t) == Text("started", Strftime(t), NoHM, "", "", NoTime, NoTime)

\* get_sleep_type(end_time) in place of get_sleep_type(start_time).
SummaryTextFromEnd(start_time, end_time) ==
    LET seconds   == TimedeltaSeconds(end_time, start_time)
        hours     == DivmodQ(seconds, 3600)
        remainder == DivmodR(seconds, 3600)
        minutes   == DivmodQ(remainder, 60)
        sleep_type == get_sleep_type(end_time)
    IN  Text("summary", Strftime(start_time), Strftime(end_time),
             Emoji(sleep_type), sleep_type, hours, minutes)

\* the summary of the stop_sleep branch
SummaryText(start_time, end_time) ==
    LET seconds   == TimedeltaSeconds(end_time, start_time)
        hours     == DivmodQ(seconds, 3600)
        remainder == DivmodR(seconds, 3600)
        minutes   == DivmodQ(remainder, 60)
        sleep_type == get_sleep_type(start_time)
    IN  Text("summary", Strftime(start_time), Strftime(end_time),
             Emoji(sleep_type), sleep_type, hours, minutes)

Message(op, text, menu) == [op |-> op, text |-> text, menu |-> menu]
NoMessage == Message("none", PlainText("none"), no_menu)

(***************************************************************************)
(* Coroutines.                                                             *)
(***************************************************************************)
\* mid is the message whose button was pressed (query.message): 0 is a message
\* that was in the chat before the process started, k > 0 the message that
\* the k-th call recorded in outbox created.
Handler(pc, user, data, msg, act) ==
    [pc |-> pc, user |-> user, data |-> data, msg |-> msg, act |-> act, mid |-> 0]

Free == Handler("free", "", "", NoMessage, 0)

Init ==
    /\ user_sleep_data = EmptyDict
    /\ handlers = [h \in Handlers |-> Free]
    /\ dispatched = 0
    /\ handled = << >>
    /\ outbox = << >>
    /\ main = "start"
    /\ update_queue = << >>

\* What the synchronous part of a button press did.
\* Another coroutine of the same user and the same button is awaiting
\* query.answer() at this moment: the two presses are handled concurrently.
Racing(h) ==
    \E g \in Handlers \ {h} :
        /\ handlers[g].pc = "answer"
        /\ handlers[g].user = handlers[h].user
        /\ handlers[g].data = handlers[h].data

Handled(h, outcome, t, end, text, before, after) ==
    [user |-> handlers[h].user, data |-> handlers[h].data,
     outcome |-> outcome, t |-> t, end |-> end, text |-> text,
     before |-> before, after |-> after, racing |-> Racing(h)]

\* A call of the Telegram API that returned or raised.
Sent(h, ok) ==
    [user |-> handlers[h].user, act |-> handlers[h].act,
     msg |-> handlers[h].msg, ok |-> ok, mid |-> handlers[h].mid]

\* Coroutines are interchangeable: a new one takes the first free place.
FirstFree(h) ==
    /\ handlers[h].pc = "free"
    /\ \A g \in Handlers : g < h => handlers[g].pc # "free"

\* The framework calls handle_buttons with a press by user u of button d of
\* message m; the coroutine runs to await query.answer().
PressButton(h, u, d, m, limit) ==
    /\ FirstFree(h)
    /\ dispatched < limit
    /\ dispatched' = dispatched + 1
    /\ handlers' = [handlers EXCEPT ![h] =
           [Handler("answer", u, d, NoMessage, 0) EXCEPT !.mid = m]]
    /\ UNCHANGED <<user_sleep_data, handled, outbox, main, update_queue>>

\* A press on the message that was in the chat before the process started.
DispatchButton(h, u, d, limit) == PressButton(h, u, d, 0, limit)

\* The framework calls start with a /start command; the coroutine runs to
\* await context.bot.send_message().
DispatchCommand(h, u) ==
    /\ FirstFree(h)
    /\ dispatched < MaxEvents
    /\ dispatched' = dispatched + 1
    /\ handlers' = [handlers EXCEPT ![h] =
           Handler("send", u, "/start",
                   Message("send", PlainText("welcome"), main_menu), 0)]
    /\ UNCHANGED <<user_sleep_data, handled, outbox, main, update_queue>>

\* query.answer() raises: the coroutine ends before it reads query.data.
AnswerFail(h) ==
    /\ handlers[h].pc = "answer"
    /\ handlers' = [handlers EXCEPT ![h] = Free]
    /\ UNCHANGED <<user_sleep_data, dispatched, handled, outbox, main, update_queue>>

\* context.bot.send_message in place of query.edit_message_text.
AwaitSend(h, op, text, menu) ==
    handlers' = [handlers EXCEPT ![h].pc = IF text.kind = "summary" THEN "edit_summary" ELSE "edit",
                                 ![h].msg = Message("send", text, menu),
                                 ![h].act = Len(handled) + 1]

\* The coroutine runs to its await of query.edit_message_text(text, menu).
Await(h, op, text, menu) ==
    handlers' = [handlers EXCEPT ![h].pc = IF text.kind = "summary" THEN "edit_summary" ELSE "edit",
                                 ![h].msg = Message(op, text, menu),
                                 ![h].act = Len(handled) + 1]

\* query.answer() returned, query.data == "start_sleep".
StartSleep(h, Clock) ==
    /\ handlers[h].pc = "answer"
    /\ handlers[h].data = "start_sleep"
    /\ \E now \in Clock :
         LET u == handlers[h].user
             after == SetItem(user_sleep_data, u, now)
             text == StartedText(after[u])
         IN  /\ user_sleep_data' = after
             /\ handled' = Append(handled,
                    Handled(h, "started", now, NoTime, text, user_sleep_data, after))
             /\ Await(h, "edit", text, sleep_menu)
    /\ UNCHANGED <<dispatched, outbox, main, update_queue>>

\* query.answer() returned, query.data == "stop_sleep".
StopSleep(h, Clock) ==
    /\ handlers[h].pc = "answer"
    /\ handlers[h].data = "stop_sleep"
    /\ LET u == handlers[h].user
       IN  IF NotIn(user_sleep_data, u)
           THEN /\ handled' = Append(handled,
                       Handled(h, "not_started", NoTime, NoTime, PlainText("not_started"),
                               user_sleep_data, user_sleep_data))
                /\ Await(h, "edit", PlainText("not_started"), main_menu)
                /\ UNCHANGED user_sleep_data
           ELSE IF PopRaises(user_sleep_data, u)
           THEN /\ handled' = Append(handled,
                       Handled(h, "KeyError", NoTime, NoTime, PlainText("none"),
                               user_sleep_data, user_sleep_data))
                /\ handlers' = [handlers EXCEPT ![h] = Free]
                /\ UNCHANGED user_sleep_data
           ELSE \E now \in Clock :
                  LET start_time == user_sleep_data[u]
                      after == Pop(user_sleep_data, u)
                      text == SummaryText(start_time, now)
                  IN  /\ user_sleep_data' = after
                      /\ handled' = Append(handled,
                             Handled(h, "summary", start_time, now, text,
                                     user_sleep_data, after))
                      /\ Await(h, "edit", text, no_menu)
    /\ UNCHANGED <<dispatched, outbox, main, update_queue>>

\* query.answer() returned, query.data == "cancel_sleep".
CancelSleep(h) ==
    /\ handlers[h].pc = "answer"
    /\ handlers[h].data = "cancel_sleep"
    /\ LET u == handlers[h].user
       IN  IF PopDefaultRaises(user_sleep_data, u)
           THEN /\ handled' = Append(handled,
                       Handled(h, "KeyError", NoTime, NoTime, PlainText("none"),
                               user_sleep_data, user_sleep_data))
                /\ handlers' = [handlers EXCEPT ![h] = Free]
                /\ UNCHANGED user_sleep_data
           ELSE LET after == Pop(user_sleep_data, u)
                IN  /\ user_sleep_data' = after
                    /\ handled' = Append(handled,
                           Handled(h, "canceled", NoTime, NoTime, PlainText("canceled"),
                                   user_sleep_data, after))
                    /\ Await(h, "edit", PlainText("canceled"), main_menu)
    /\ UNCHANGED <<dispatched, outbox, main, update_queue>>

\* The last branch written as else: any other data cancels.
OtherDataCancels(h) ==
    /\ handlers[h].pc = "answer"
    /\ handlers[h].data \notin {"start_sleep", "stop_sleep", "cancel_sleep"}
    /\ user_sleep_data' = Pop(user_sleep_data, handlers[h].user)
    /\ handlers' = [handlers EXCEPT ![h] = Free]
    /\ UNCHANGED <<dispatched, handled, outbox, main, update_queue>>

\* query.answer() returned, query.data is none of the three: no branch runs.
OtherData(h) ==
    /\ handlers[h].pc = "answer"
    /\ handlers[h].data \notin {"start_sleep", "stop_sleep", "cancel_sleep"}
    /\ handlers' = [handlers EXCEPT ![h] = Free]
    /\ UNCHANGED <<user_sleep_data, dispatched, handled, outbox, main, update_queue>>

\* query.edit_message_text() returned: a branch other than the summary ends.
EditOk(h) ==
    /\ handlers[h].pc = "edit"
    /\ outbox' = Append(outbox, Sent(h, TRUE))
    /\ handlers' = [handlers EXCEPT ![h] = Free]
    /\ UNCHANGED <<user_sleep_data, dispatched, handled, main, update_queue>>

\* query.edit_message_text() of the summary returned: the coroutine runs to
\* await context.bot.send_message().
EditSummaryOk(h) ==
    /\ handlers[h].pc = "edit_summary"
    /\ outbox' = Append(outbox, Sent(h, TRUE))
    /\ handlers' = [handlers EXCEPT ![h].pc = "send",
                                    ![h].msg = Message("send", PlainText("ready"), main_menu)]
    /\ UNCHANGED <<user_sleep_data, dispatched, handled, main, update_queue>>

\* An exception handler that puts back what the branch found in the store.
EditFailRollback(h) ==
    /\ handlers[h].pc \in {"edit", "edit_summary"}
    /\ outbox' = Append(outbox, Sent(h, FALSE))
    /\ handlers' = [handlers EXCEPT ![h] = Free]
    /\ user_sleep_data' = handled[handlers[h].act].before
    /\ UNCHANGED <<dispatched, handled, main, update_queue>>

\* query.edit_message_text() raised: the exception ends the coroutine.
EditFail(h) ==
    /\ handlers[h].pc \in {"edit", "edit_summary"}
    /\ outbox' = Append(outbox, Sent(h, FALSE))
    /\ handlers' = [handlers EXCEPT ![h] = Free]
    /\ UNCHANGED <<user_sleep_data, dispatched, handled, main, update_queue>>

\* context.bot.send_message() returned.
SendOk(h) ==
    /\ handlers[h].pc = "send"
    /\ outbox' = Append(outbox, Sent(h, TRUE))
    /\ handlers' = [handlers EXCEPT ![h] = Free]
    /\ UNCHANGED <<user_sleep_data, dispatched, handled, main, update_queue>>

\* context.bot.send_message() raised.
SendFail(h) ==
    /\ handlers[h].pc = "send"
    /\ outbox' = Append(outbox, Sent(h, FALSE))
    /\ handlers' = [handlers EXCEPT ![h] = Free]
    /\ UNCHANGED <<user_sleep_data, dispatched, handled, main, update_queue>>

(***************************************************************************)
(* Reading the history.                                                    *)
(***************************************************************************)
Acts == 1..Len(handled)
Outs == 1..Len(outbox)

(***************************************************************************)
(* The chat: the messages this process has sent and the menu each shows.   *)
(***************************************************************************)
\* A successful send_message creates a message.
Messages == {k \in Outs : outbox[k].ok /\ outbox[k].msg.op = "send"}

\* The reply_markup message m shows: that of the last successful call on it.
MenuOf(m) ==
    LET calls == {k \in Outs :
                     /\ outbox[k].ok
                     /\ \/ k = m
                        \/ outbox[k].msg.op = "edit" /\ outbox[k].mid = m}
        last == CHOOSE k \in calls : \A j \in calls : j <= k
    IN  outbox[last].msg.menu

\* callback_data of the buttons of main_menu() and sleep_menu()
Buttons(menu) ==
    IF menu = main_menu THEN {"start_sleep"}
    ELSE IF menu = sleep_menu THEN {"stop_sleep", "cancel_sleep"}
    ELSE {}

Next ==
    \/ \E h \in Handlers, u \in Users, d \in ButtonData : DispatchButton(h, u, d, MaxEvents)
    \/ \E h \in Handlers, u \in Users : DispatchCommand(h, u)
    \/ \E h \in Handlers : AnswerFail(h)
    \/ \E h \in Handlers : StartSleep(h, ClockTimes)
    \/ \E h \in Handlers : StopSleep(h, ClockTimes)
    \/ \E h \in Handlers : CancelSleep(h)
    \/ \E h \in Handlers : OtherData(h)
    \/ \E h \in Handlers : EditOk(h)
    \/ \E h \in Handlers : EditSummaryOk(h)
    \/ \E h \in Handlers : EditFail(h)
    \/ \E h \in Handlers : SendOk(h)
    \/ \E h \in Handlers : SendFail(h)

Spec == Init /\ [][Next]_vars

\* One user, one coroutine, notifications succeeding: at most one start_sleep
\* followed by at most one stop_sleep, the clock read anywhere in WideTimes.
SessionNext ==
    \/ DispatchButton(1, "u1", "start_sleep", 1)
    \/ DispatchButton(1, "u1", "stop_sleep", 2)
    \/ StartSleep(1, WideTimes)
    \/ StopSleep(1, WideTimes)
    \/ EditOk(1)
    \/ EditSummaryOk(1)
    \/ SendOk(1)

SessionSpec == Init /\ [][SessionNext]_vars

(***************************************************************************)
(* The process as its main block starts it.  run() awaits set_webhook and  *)
(* then calls flask_app.run(), which serves /webhook and does not return.  *)
(* The Application is built and given its handlers, but nothing calls its  *)
(* initialize(), start() or run_webhook(): no task of this process reads   *)
(* app.update_queue, so no step below takes an update from it.             *)
(***************************************************************************)
Update(u, d) == [user |-> u, data |-> d]

\* await app.bot.set_webhook(...) returned: flask_app.run() serves.
SetWebhookOk ==
    /\ main = "start"
    /\ main' = "serving"
    /\ UNCHANGED <<user_sleep_data, handlers, dispatched, handled, outbox, update_queue>>

\* await app.bot.set_webhook(...) raised: asyncio.run re-raises, the process ends.
SetWebhookFail ==
    /\ main = "start"
    /\ main' = "exited"
    /\ UNCHANGED <<user_sleep_data, handlers, dispatched, handled, outbox, update_queue>>

\* POST /webhook: the update is put on app.update_queue and "OK" is returned.
Webhook(u, d) ==
    /\ main = "serving"
    /\ Len(update_queue) < MaxEvents
    /\ update_queue' = Append(update_queue, Update(u, d))
    /\ UNCHANGED <<user_sleep_data, handlers, dispatched, handled, outbox, main>>

WebhookNext ==
    \/ SetWebhookOk
    \/ SetWebhookFail
    \/ \E u \in Users, d \in ButtonData \cup {"/start"} : Webhook(u, d)

\* The steps of the process itself are taken when they can be; Telegram may
\* or may not post another update.
WebhookSpec ==
    Init /\ [][WebhookNext]_vars /\ WF_vars(SetWebhookOk \/ SetWebhookFail)

\* User u presses a button that a message of the chat shows.
PressShown(h, u) ==
    \E m \in Messages : \E d \in Buttons(MenuOf(m)) : PressButton(h, u, d, m, MaxEvents)

\* A shared chat: events are handled one at a time, notifications succeed,
\* and a user presses a button that a message of the chat shows.
ChatNext ==
    \/ \E u \in Users : DispatchCommand(1, u)
    \/ \E u \in Users : PressShown(1, u)
    \/ StartSleep(1, ClockTimes)
    \/ StopSleep(1, ClockTimes)
    \/ CancelSleep(1)
    \/ EditOk(1)
    \/ EditSummaryOk(1)
    \/ SendOk(1)

ChatSpec == Init /\ [][ChatNext]_vars


\* handled[i] and handled[j] are two successive handled actions of user u.
Successive(u, i, j) ==
    /\ i \in Acts /\ j \in Acts /\ i < j
    /\ handled[i].user = u /\ handled[j].user = u
    /\ \A k \in (i + 1)..(j - 1) : handled[k].user # u

SpecHour(t) == (t % 86400) \div 3600

(***************************************************************************)
(* C1.  get_sleep_type labels a session by the local hour h of its start   *)
(* time: 'day' if and only if 6 <= h < 18, 'night' otherwise.  Stated of   *)
(* every summary a stop_sleep has produced.                                *)
(***************************************************************************)
C1_DayIffSixToEighteen ==
    \A i \in Acts :
        handled[i].outcome = "summary" =>
            LET h == SpecHour(handled[i].t)
            IN  /\ handled[i].text.type \in {"day", "night"}
                /\ handled[i].text.type = "day" <=> (6 <= h /\ h < 18)

(***************************************************************************)
(* C2.  A start_sleep of u handled at time t, followed as u's next handled *)
(* action by a stop_sleep: after the stop u has no entry and the summary   *)
(* reports start time t.                                                   *)
(***************************************************************************)
C2_StartThenStop ==
    \A u \in Users : \A i, j \in Acts :
        (/\ Successive(u, i, j)
         /\ handled[i].data = "start_sleep"
         /\ handled[j].data = "stop_sleep")
        => /\ u \notin DOMAIN handled[j].after
           /\ handled[j].outcome = "summary"
           /\ handled[j].t = handled[i].t
           /\ handled[j].text.kind = "summary"
           /\ handled[j].text.start = <<SpecHour(handled[i].t), (handled[i].t % 3600) \div 60>>

C2_Witness ==
    \E u \in Users : \E i, j \in Acts :
        /\ Successive(u, i, j)
        /\ handled[i].data = "start_sleep"
        /\ handled[j].data = "stop_sleep"
        /\ handled[j].outcome = "summary"
        /\ u \notin DOMAIN user_sleep_data

(***************************************************************************)
(* C3.  stop_sleep or cancel_sleep of a user with no entry leaves the      *)
(* whole store unchanged, raises nothing and produces no summary: stop     *)
(* answers 'haven't started', cancel answers 'tracking canceled', both     *)
(* with the main menu.                                                     *)
(***************************************************************************)
IdleAnswer(d) == IF d = "stop_sleep" THEN "not_started" ELSE "canceled"

C3_IdleStopCancel ==
    \A i \in Acts :
        (/\ handled[i].data \in {"stop_sleep", "cancel_sleep"}
         /\ handled[i].user \notin DOMAIN handled[i].before)
        => /\ handled[i].after = handled[i].before
           /\ handled[i].outcome = IdleAnswer(handled[i].data)
           /\ handled[i].text = PlainText(IdleAnswer(handled[i].data))
           /\ \A k \in Outs :
                  outbox[k].act = i =>
                      outbox[k].msg = Message("edit", PlainText(IdleAnswer(handled[i].data)),
                                              main_menu)
           /\ \A h \in Handlers :
                  handlers[h].act = i =>
                      handlers[h].msg = Message("edit", PlainText(IdleAnswer(handled[i].data)),
                                                main_menu)

C3_Witness ==
    \E i, j \in Acts : \E k, l \in Outs :
        /\ handled[i].data = "stop_sleep"
        /\ handled[j].data = "cancel_sleep"
        /\ handled[i].user \notin DOMAIN handled[i].before
        /\ handled[j].user \notin DOMAIN handled[j].before
        /\ handled[i].before # EmptyDict
        /\ outbox[k].act = i /\ outbox[k].ok
        /\ outbox[l].act = j /\ outbox[l].ok

SpecHM(t) == <<SpecHour(t), (t % 3600) \div 60>>

(***************************************************************************)
(* C4.  Two successive start_sleep of u at t1 and then t2 > t1: u stays    *)
(* Tracking, nothing but the two 'Sleep started' replies is emitted for    *)
(* them, and the next stop_sleep of u reports start time t2.               *)
(***************************************************************************)
C4_OverwriteOnDoubleStart ==
    \A u \in Users : \A i, j \in Acts :
        (/\ Successive(u, i, j)
         /\ handled[i].data = "start_sleep"
         /\ handled[j].data = "start_sleep"
         /\ handled[j].t > handled[i].t)
        => /\ u \in DOMAIN handled[j].after
           /\ handled[j].after[u] = handled[j].t
           /\ handled[i].outcome = "started" /\ handled[j].outcome = "started"
           /\ \A k \in Outs :
                  outbox[k].act \in {i, j} =>
                      /\ outbox[k].msg.text.kind = "started"
                      /\ outbox[k].msg.op = "edit"
           /\ \A k \in Acts :
                  (Successive(u, j, k) /\ handled[k].data = "stop_sleep") =>
                      /\ handled[k].outcome = "summary"
                      /\ handled[k].t = handled[j].t
                      /\ handled[k].t # handled[i].t
                      /\ handled[k].text.start = SpecHM(handled[j].t)

C4_Witness ==
    \E u \in Users : \E i, j, k \in Acts :
        /\ Successive(u, i, j) /\ Successive(u, j, k)
        /\ handled[i].data = "start_sleep"
        /\ handled[j].data = "start_sleep"
        /\ handled[j].t > handled[i].t
        /\ SpecHM(handled[j].t) # SpecHM(handled[i].t)
        /\ handled[k].data = "stop_sleep"
        /\ handled[k].outcome = "summary"

(***************************************************************************)
(* C5.  Of two stop_sleep of one Tracking user handled concurrently,       *)
(* exactly one produces a summary and the other takes the 'haven't         *)
(* started' branch: no session gets two summaries and no removal raises.   *)
(***************************************************************************)
C5_OneSummaryPerSession ==
    /\ \A i \in Acts : handled[i].outcome # "KeyError"
    /\ \A u \in Users : \A i, j \in Acts :
          (/\ Successive(u, i, j)
           /\ handled[i].data = "stop_sleep"
           /\ handled[j].data = "stop_sleep")
          => /\ handled[j].outcome = "not_started"
             /\ u \in DOMAIN handled[i].before => handled[i].outcome = "summary"
    /\ \A u \in Users : \A i, j \in Acts :
          (/\ i < j
           /\ handled[i].user = u /\ handled[j].user = u
           /\ handled[i].outcome = "summary" /\ handled[j].outcome = "summary")
          => \E k \in (i + 1)..(j - 1) :
                 handled[k].user = u /\ handled[k].data = "start_sleep"

C5_Witness ==
    \E u \in Users : \E i, j \in Acts :
        /\ Successive(u, i, j)
        /\ handled[i].data = "stop_sleep" /\ handled[i].racing
        /\ handled[i].outcome = "summary"
        /\ handled[j].data = "stop_sleep"
        /\ handled[j].outcome = "not_started"
        /\ \E g, h \in Handlers :
              /\ g # h
              /\ handlers[g].pc = "edit_summary" /\ handlers[g].act = i
              /\ handlers[h].pc = "edit" /\ handlers[h].act = j

(***************************************************************************)
(* C6.  For end >= start and d = end - start whole seconds, the duration   *)
(* shown is H = floor(d / 3600) hours and M = floor((d mod 3600) / 60)     *)
(* minutes, for every d, sessions of 24 hours or longer included.          *)
(***************************************************************************)
C6_DurationHoursMinutes ==
    \A i \in Acts :
        (handled[i].outcome = "summary" /\ handled[i].end >= handled[i].t) =>
            LET d == handled[i].end - handled[i].t
            IN  /\ handled[i].text.hours = d \div 3600
                /\ handled[i].text.minutes = (d % 3600) \div 60

(***************************************************************************)
(* C7.  For every stored start time and every clock reading at stop,       *)
(* readings earlier than the start included, stop_sleep does not raise     *)
(* and the displayed duration has H >= 0 and 0 <= M <= 59.                 *)
(***************************************************************************)
C7_DurationNonNegative ==
    \A i \in Acts :
        (handled[i].data = "stop_sleep" /\ handled[i].user \in DOMAIN handled[i].before) =>
            /\ handled[i].outcome = "summary"
            /\ handled[i].text.hours >= 0
            /\ handled[i].text.minutes >= 0
            /\ handled[i].text.minutes <= 59

C7_Witness ==
    \E i \in Acts :
        /\ handled[i].outcome = "summary"
        /\ handled[i].end < handled[i].t
        /\ handled[i].t - handled[i].end > 86400
        /\ \E k \in Outs : outbox[k].act = i /\ outbox[k].ok

(***************************************************************************)
(* C8.  A notification failure never corrupts the store: a call of         *)
(* edit_message_text or send_message that fails does so after the store    *)
(* mutation of its action, and the failure leaves every entry of the       *)
(* store, of this user and of every other, as it was.                      *)
(***************************************************************************)
C8_FailedNotifyKeepsStore ==
    [][(Len(outbox') = Len(outbox) + 1 /\ ~ outbox'[Len(outbox')].ok)
       => LET m == outbox'[Len(outbox')]
          IN  /\ user_sleep_data' = user_sleep_data
              /\ handled' = handled
              /\ m.act > 0 =>
                    /\ m.act \in Acts
                    /\ handled[m.act].user = m.user
                    /\ handled[m.act].data \in {"stop_sleep", "cancel_sleep"}
                          => m.user \notin DOMAIN handled[m.act].after
                    /\ handled[m.act].data = "start_sleep"
                          => /\ m.user \in DOMAIN handled[m.act].after
                             /\ handled[m.act].after[m.user] = handled[m.act].t]_vars

C8_Witness ==
    \E k \in Outs :
        /\ ~ outbox[k].ok
        /\ outbox[k].act \in Acts
        /\ handled[outbox[k].act].outcome = "summary"
        /\ outbox[k].msg.text.kind = "summary"
        /\ outbox[k].user \notin DOMAIN user_sleep_data
        /\ user_sleep_data # EmptyDict

(***************************************************************************)
(* C9.  Duplicate delivery: of two successive cancel_sleep of u both get   *)
(* the same 'canceled' response and none raises; of two successive         *)
(* stop_sleep at most one gets a summary and the duplicate gets 'haven't   *)
(* started'; the duplicate leaves the store as the first delivery left     *)
(* it.  A duplicate start_sleep is accepted and leaves u Tracking.         *)
(***************************************************************************)
C9_DuplicateDelivery ==
    \A u \in Users : \A i, j \in Acts :
        (Successive(u, i, j) /\ handled[i].data = handled[j].data) =>
            /\ handled[i].outcome # "KeyError" /\ handled[j].outcome # "KeyError"
            /\ handled[j].data = "cancel_sleep" =>
                  /\ handled[i].outcome = "canceled" /\ handled[j].outcome = "canceled"
                  /\ handled[j].text = handled[i].text
                  /\ handled[j].after = handled[j].before
                  /\ j = i + 1 => handled[j].after = handled[i].after
            /\ handled[j].data = "stop_sleep" =>
                  /\ handled[i].outcome \in {"summary", "not_started"}
                  /\ handled[j].outcome = "not_started"
                  /\ handled[j].after = handled[j].before
                  /\ j = i + 1 => handled[j].after = handled[i].after
            /\ handled[j].data = "start_sleep" =>
                  /\ handled[j].outcome = "started"
                  /\ u \in DOMAIN handled[j].after

C9_Witness ==
    \E u \in Users : \E i \in Acts :
        /\ i + 1 \in Acts
        /\ handled[i].user = u /\ handled[i + 1].user = u
        /\ handled[i].data = "cancel_sleep" /\ handled[i + 1].data = "cancel_sleep"
        /\ u \in DOMAIN handled[i].before
        /\ \E k, l \in Outs :
              /\ outbox[k].act = i /\ outbox[l].act = i + 1
              /\ outbox[k].ok /\ outbox[l].ok
              /\ outbox[k].msg = outbox[l].msg

(***************************************************************************)
(* C10.  A start_sleep at t and then a stop_sleep at t', notifications     *)
(* succeeding: the outputs are, in order, the reply 'Sleep started at      *)
(* HH:MM' of t, the reply with the summary (category, t-t', duration) and  *)
(* exactly one new 'ready for next nap' message, and the user has no entry *)
(* afterwards.  For t = 07:00 and t' = 09:30 of one day the summary is     *)
(* the Day one, 07:00-09:30, 2h 30m.                                       *)
(***************************************************************************)
C10_EndToEnd ==
    \A u \in Users : \A i, j \in Acts :
        (/\ Successive(u, i, j)
         /\ handled[i].data = "start_sleep"
         /\ handled[j].data = "stop_sleep"
         /\ \A h \in Handlers : handlers[h].pc = "free")
        => LET t == handled[i].t
               tt == handled[j].end
               mine == SelectSeq(outbox, LAMBDA m : m.user = u /\ m.act \in {i, j})
           IN  /\ Len(mine) = 3
               /\ \A k \in 1..3 : mine[k].ok
               /\ mine[1].act = i /\ mine[1].msg.op = "edit"
               /\ mine[1].msg.text.kind = "started"
               /\ mine[1].msg.text.start = SpecHM(t)
               /\ mine[2].act = j /\ mine[2].msg.op = "edit"
               /\ mine[2].msg.text.kind = "summary"
               /\ mine[2].msg.text.start = SpecHM(t)
               /\ mine[2].msg.text.end = SpecHM(tt)
               /\ mine[2].msg.text.type \in {"day", "night"}
               /\ mine[2].msg.text.hours >= 0
               /\ mine[3].act = j /\ mine[3].msg.op = "send"
               /\ mine[3].msg.text.kind = "ready"
               /\ u \notin DOMAIN user_sleep_data
               /\ (SpecHM(t) = <<7, 0>> /\ SpecHM(tt) = <<9, 30>> /\ tt - t = 9000)
                     => /\ mine[2].msg.text.emoji = "sun"
                        /\ mine[2].msg.text.type = "day"
                        /\ mine[2].msg.text.hours = 2
                        /\ mine[2].msg.text.minutes = 30

\* The last handled action of user u, 0 if there is none.
LastAct(u) ==
    LET mine == {i \in Acts : handled[i].user = u}
    IN  IF mine = {} THEN 0 ELSE CHOOSE i \in mine : \A j \in mine : j <= i

(***************************************************************************)
(* C11.  In every reachable state a user has an entry in user_sleep_data   *)
(* if and only if the most recently handled action of that user among      *)
(* start_sleep, stop_sleep and cancel_sleep is start_sleep, and the entry  *)
(* is the one start time that action wrote: nothing but a stop or cancel   *)
(* of the same user removes it.                                            *)
(***************************************************************************)
C11_TrackingIffLastIsStart ==
    \A u \in Users :
        /\ u \in DOMAIN user_sleep_data
              <=> (LastAct(u) # 0 /\ handled[LastAct(u)].data = "start_sleep")
        /\ u \in DOMAIN user_sleep_data
              => user_sleep_data[u] = handled[LastAct(u)].t

C11_Witness ==
    \E u, v \in Users :
        /\ u # v
        /\ u \in DOMAIN user_sleep_data
        /\ v \notin DOMAIN user_sleep_data
        /\ LastAct(v) # 0
        /\ LastAct(u) < LastAct(v)
        /\ \E k \in Outs :
              /\ outbox[k].ok /\ outbox[k].user = u
              /\ outbox[k].msg.text.kind = "welcome"

(***************************************************************************)
(* C12.  The category of a summary is the classifier's value at the        *)
(* session's start time, never its value at the end time: where the two    *)
(* differ the summary carries the one of the start hour.                   *)
(***************************************************************************)
C12_CategoryOfStart ==
    \A i \in Acts :
        handled[i].outcome = "summary" =>
            /\ handled[i].text.type = get_sleep_type(At(0, SpecHour(handled[i].t), 0, 0))
            /\ handled[i].text.emoji = Emoji(handled[i].text.type)
            /\ \A k \in Outs :
                  (outbox[k].act = i /\ outbox[k].msg.text.kind = "summary")
                      => outbox[k].msg.text = handled[i].text

C12_Witness ==
    \E i \in Acts : \E k \in Outs :
        /\ handled[i].outcome = "summary"
        /\ get_sleep_type(handled[i].t) = "day"
        /\ get_sleep_type(handled[i].end) = "night"
        /\ outbox[k].act = i /\ outbox[k].ok
        /\ outbox[k].msg.text.type = "day"

(***************************************************************************)
(* C13.  A new message (send_message) is sent only as the 'ready for next  *)
(* nap' follow-up of a stop that removed a session: no other inbound       *)
(* event causes one.                                                       *)
(***************************************************************************)
FollowUp(m) ==
    /\ m.act \in Acts
    /\ handled[m.act].outcome = "summary"
    /\ handled[m.act].user = m.user
    /\ m.msg = Message("send", PlainText("ready"), main_menu)

C13_SendOnlyAsFollowUp ==
    /\ \A k \in Outs : outbox[k].msg.op = "send" => FollowUp(outbox[k])
    /\ \A h \in Handlers :
          (handlers[h].pc # "free" /\ handlers[h].msg.op = "send")
              => FollowUp(Sent(h, TRUE))

(***************************************************************************)
(* C13, amended.  A new message is sent only as the 'ready for next nap'   *)
(* follow-up of a stop that removed a session or as the welcome message    *)
(* of the /start command: no button press other than such a stop causes    *)
(* one.                                                                    *)
(***************************************************************************)
Welcome(m) ==
    /\ m.act = 0
    /\ m.msg = Message("send", PlainText("welcome"), main_menu)

C13_SendOnlyFollowUpOrWelcome ==
    /\ \A k \in Outs :
          outbox[k].msg.op = "send" => (FollowUp(outbox[k]) \/ Welcome(outbox[k]))
    /\ \A h \in Handlers :
          (handlers[h].pc # "free" /\ handlers[h].msg.op = "send")
              => \/ FollowUp(Sent(h, TRUE))
                 \/ (Welcome(Sent(h, TRUE)) /\ handlers[h].data = "/start")
    /\ \A i \in Acts :
          handled[i].outcome # "summary"
              => \A k \in Outs : outbox[k].act = i => outbox[k].msg.op = "edit"

C13_Witness ==
    \E k, l, m \in Outs :
        /\ outbox[k].ok /\ Welcome(outbox[k])
        /\ outbox[l].ok /\ FollowUp(outbox[l])
        /\ outbox[m].ok /\ outbox[m].msg.op = "edit"
        /\ outbox[m].msg.text.kind = "started"

\* The entry of user v, NoTime if there is none.
Entry(dict, v) == IF v \in DOMAIN dict THEN dict[v] ELSE NoTime

C15_FollowUpAlwaysAttempted ==
    \A i \in Acts :
        (/\ handled[i].outcome = "summary"
         /\ \A h \in Handlers : handlers[h].pc # "free" => handlers[h].act # i)
        => /\ \E k \in Outs : outbox[k].act = i /\ outbox[k].msg.op = "edit"
           /\ \E k \in Outs : outbox[k].act = i /\ outbox[k].msg.op = "send"

(***************************************************************************)
(* C17.  The /start command and a button press whose data is none of       *)
(* start_sleep, stop_sleep, cancel_sleep leave user_sleep_data unchanged   *)
(* for every user: no step of their coroutines changes the store.          *)
(***************************************************************************)
Inert == {"/start", "other"}

C17_StartCommandAndOtherDataInert ==
    [][\A h \in Handlers :
          (/\ handlers'[h] # handlers[h]
           /\ (handlers[h].data \in Inert \/ handlers'[h].data \in Inert))
          => /\ user_sleep_data' = user_sleep_data
             /\ handled' = handled]_vars

C17_Witness ==
    \E u \in Users : \E j, k \in Outs :
        /\ Len(handled) = 1
        /\ handled[1].user = u /\ handled[1].outcome = "started"
        /\ Entry(user_sleep_data, u) = handled[1].t
        /\ j < k
        /\ outbox[j].ok /\ outbox[j].act = 1
        /\ outbox[k].ok /\ outbox[k].user = u /\ Welcome(outbox[k])
        /\ Len(outbox) = 2
        /\ dispatched = 3
        /\ \A h \in Handlers : handlers[h].pc = "free"

(***************************************************************************)
(* C16.  Menu matches state: after a button action of u has been fully     *)
(* handled (one event at a time, notifications succeeding), the last menu  *)
(* sent in response to it is the sleep menu if u is in the store and the   *)
(* main menu if not; and in a shared chat a Tracking user always has a     *)
(* message that offers stop and cancel.                                    *)
(***************************************************************************)
\* The action handled[i] has been fully handled.
Completed(i) == \A h \in Handlers : handlers[h].pc # "free" => handlers[h].act # i

\* The menus sent in response to handled[i], in order.
MenusOf(i) ==
    SelectSeq(outbox, LAMBDA m : m.act = i /\ m.ok /\ m.msg.menu # no_menu)

C16_MenuMatchesState ==
    /\ \A i \in Acts :
          Completed(i) =>
              /\ Len(MenusOf(i)) > 0
              /\ MenusOf(i)[Len(MenusOf(i))].msg.menu =
                    IF handled[i].user \in DOMAIN handled[i].after
                    THEN sleep_menu ELSE main_menu
    /\ (\A h \in Handlers : handlers[h].pc = "free") =>
          \A u \in DOMAIN user_sleep_data :
              \E m \in Messages : MenuOf(m) = sleep_menu

(***************************************************************************)
(* C18.  Once the process has been started through its main block, every   *)
(* update that /webhook has put on app.update_queue is eventually taken    *)
(* from the queue and dispatched to its handler: the n-th accepted update  *)
(* leads to n dispatched updates.                                          *)
(***************************************************************************)
Accepted == Len(update_queue) + dispatched

C18_AcceptedUpdateDispatched ==
    \A n \in 1..MaxEvents : (Accepted >= n) ~> (dispatched >= n)

====
